---- MODULE Spec2Model ----
(***************************************************************************)
(* The rtnetlink message codec of netlink-packet-route: the address-family *)
(* byte mapping (address_family_linux.rs), the GTP link-info attribute     *)
(* (link/link_info/gtp.rs) and the message-type dispatcher (message.rs).   *)
(* Every operation of the library is a pure function of its arguments, so  *)
(* the state of the model is the call last made: its name, its arguments   *)
(* and what it returned.                                                   *)
(***************************************************************************)
EXTENDS Integers, Sequences, FiniteSets

VARIABLES op, arg, ret

vars == <<op, arg, ret>>

\* ------------------------------------------------------------------------
\* Bounds of the model.

\* Raw payloads of every length 0..MaxShortLen over SampleBytes are decoded.
MaxShortLen == 5
\* An attribute value holds 0..MaxValueLen bytes.
MaxValueLen == 2
\* A link or address message carries 0..MaxAttrs attributes.
MaxAttrs == 1

Bytes == 0..255

Min(S) == CHOOSE x \in S : \A y \in S : x <= y

\* Result<T, E>
Ok(x) == [ok |-> TRUE, value |-> x]
Err(e) == [ok |-> FALSE, error |-> e]

\* ------------------------------------------------------------------------
\* address_family_linux.rs

\* AF_* constants (address_family_linux.rs)
AF_KCM == 41
AF_QIPCRTR == 42
AF_SMC == 43
AF_XDP == 44
AF_MCTP == 45
AF_UNSPEC == 0
AF_LOCAL == 1
AF_UNIX == 1
AF_INET == 2
AF_AX25 == 3
AF_IPX == 4
AF_APPLETALK == 5
AF_NETROM == 6
AF_BRIDGE == 7
AF_ATMPVC == 8
AF_X25 == 9
AF_INET6 == 10
AF_ROSE == 11
AF_DECnet == 12
AF_NETBEUI == 13
AF_SECURITY == 14
AF_KEY == 15
AF_NETLINK == 16
AF_ROUTE == 16
AF_PACKET == 17
AF_ASH == 18
AF_ECONET == 19
AF_ATMSVC == 20
AF_RDS == 21
AF_SNA == 22
AF_IRDA == 23
AF_PPPOX == 24
AF_WANPIPE == 25
AF_LLC == 26
AF_IB == 27
AF_MPLS == 28
AF_CAN == 29
AF_TIPC == 30
AF_BLUETOOTH == 31
AF_IUCV == 32
AF_RXRPC == 33
AF_ISDN == 34
AF_PHONET == 35
AF_IEEE802154 == 36
AF_CAIF == 37
AF_ALG == 38
AF_NFC == 39
AF_VSOCK == 40

NamedVariants ==
    {"Unspec", "Local", "Unix", "Inet", "Ax25", "Ipx",
     "Appletalk", "Netrom", "Bridge", "Atmpvc", "X25", "Inet6",
     "Rose", "Decnet", "Netbeui", "Security", "Key", "Route",
     "Netlink", "Packet", "Ash", "Econet", "Atmsvc", "Rds",
     "Sna", "Irda", "Pppox", "Wanpipe", "Llc", "Ib",
     "Mpls", "Can", "Tipc", "Bluetooth", "Iucv", "Rxrpc",
     "Isdn", "Phonet", "Ieee802154", "Caif", "Alg", "Nfc",
     "Vsock", "Kcm", "Qipcrtr", "Smc", "Xdp", "Mctp"}

FromArms ==
    <<<<AF_UNSPEC, "Unspec">>, <<AF_LOCAL, "Local">>, <<AF_UNIX, "Unix">>,
      <<AF_INET, "Inet">>, <<AF_AX25, "Ax25">>, <<AF_IPX, "Ipx">>,
      <<AF_APPLETALK, "Appletalk">>, <<AF_NETROM, "Netrom">>, <<AF_BRIDGE, "Bridge">>,
      <<AF_ATMPVC, "Atmpvc">>, <<AF_X25, "X25">>, <<AF_INET6, "Inet6">>,
      <<AF_ROSE, "Rose">>, <<AF_DECnet, "Decnet">>, <<AF_NETBEUI, "Netbeui">>,
      <<AF_SECURITY, "Security">>, <<AF_KEY, "Key">>, <<AF_ROUTE, "Route">>,
      <<AF_NETLINK, "Netlink">>, <<AF_PACKET, "Packet">>, <<AF_ASH, "Ash">>,
      <<AF_ECONET, "Econet">>, <<AF_ATMSVC, "Atmsvc">>, <<AF_RDS, "Rds">>,
      <<AF_SNA, "Sna">>, <<AF_IRDA, "Irda">>, <<AF_PPPOX, "Pppox">>,
      <<AF_WANPIPE, "Wanpipe">>, <<AF_LLC, "Llc">>, <<AF_IB, "Ib">>,
      <<AF_MPLS, "Mpls">>, <<AF_CAN, "Can">>, <<AF_TIPC, "Tipc">>,
      <<AF_BLUETOOTH, "Bluetooth">>, <<AF_IUCV, "Iucv">>, <<AF_RXRPC, "Rxrpc">>,
      <<AF_ISDN, "Isdn">>, <<AF_PHONET, "Phonet">>, <<AF_IEEE802154, "Ieee802154">>,
      <<AF_CAIF, "Caif">>, <<AF_ALG, "Alg">>, <<AF_NFC, "Nfc">>,
      <<AF_VSOCK, "Vsock">>, <<AF_KCM, "Kcm">>, <<AF_QIPCRTR, "Qipcrtr">>,
      <<AF_SMC, "Smc">>, <<AF_XDP, "Xdp">>, <<AF_MCTP, "Mctp">>>>

IntoArms ==
    <<<<"Unspec", AF_UNSPEC>>, <<"Local", AF_LOCAL>>, <<"Unix", AF_UNIX>>,
      <<"Inet", AF_INET>>, <<"Ax25", AF_AX25>>, <<"Ipx", AF_IPX>>,
      <<"Appletalk", AF_APPLETALK>>, <<"Netrom", AF_NETROM>>, <<"Bridge", AF_BRIDGE>>,
      <<"Atmpvc", AF_ATMPVC>>, <<"X25", AF_X25>>, <<"Inet6", AF_INET6>>,
      <<"Rose", AF_ROSE>>, <<"Decnet", AF_DECnet>>, <<"Netbeui", AF_NETBEUI>>,
      <<"Security", AF_SECURITY>>, <<"Key", AF_KEY>>, <<"Route", AF_ROUTE>>,
      <<"Netlink", AF_NETLINK>>, <<"Packet", AF_PACKET>>, <<"Ash", AF_ASH>>,
      <<"Econet", AF_ECONET>>, <<"Atmsvc", AF_ATMSVC>>, <<"Rds", AF_RDS>>,
      <<"Sna", AF_SNA>>, <<"Irda", AF_IRDA>>, <<"Pppox", AF_PPPOX>>,
      <<"Wanpipe", AF_WANPIPE>>, <<"Llc", AF_LLC>>, <<"Ib", AF_IB>>,
      <<"Mpls", AF_MPLS>>, <<"Can", AF_CAN>>, <<"Tipc", AF_TIPC>>,
      <<"Bluetooth", AF_BLUETOOTH>>, <<"Iucv", AF_IUCV>>, <<"Rxrpc", AF_RXRPC>>,
      <<"Isdn", AF_ISDN>>, <<"Phonet", AF_PHONET>>, <<"Ieee802154", AF_IEEE802154>>,
      <<"Caif", AF_CAIF>>, <<"Alg", AF_ALG>>, <<"Nfc", AF_NFC>>,
      <<"Vsock", AF_VSOCK>>, <<"Kcm", AF_KCM>>, <<"Qipcrtr", AF_QIPCRTR>>,
      <<"Smc", AF_SMC>>, <<"Xdp", AF_XDP>>, <<"Mctp", AF_MCTP>>>>

\* enum AddressFamily: a named variant, or Other(d) carrying the raw byte.
Named(n) == [variant |-> n]
Other(d) == [variant |-> "Other", d |-> d]

AddressFamilyValues ==
    {Named(n) : n \in NamedVariants} \cup {Other(d) : d \in Bytes}

\* impl From<u8> for AddressFamily, with the arm of one constant left out.
AddressFamily_from_missingArm(d) ==
    LET arms == SelectSeq(FromArms, LAMBDA a : a[2] # "Mctp")
        hits == {i \in DOMAIN arms : arms[i][1] = d}
    IN  IF hits = {} THEN Other(d) ELSE Named(arms[Min(hits)][2])

\* impl From<u8> for AddressFamily: the guarded arms are tried in source
\* order and the first whose constant equals d wins; `_ => Self::Other(d)`.
AddressFamily_from(d) ==
    LET hits == {i \in DOMAIN FromArms : FromArms[i][1] = d}
    IN  IF hits = {} THEN Other(d) ELSE Named(FromArms[Min(hits)][2])

\* impl From<AddressFamily> for u8, with Other(d) losing its byte.
u8_from_dropsOther(v) ==
    IF v.variant = "Other"
    THEN AF_UNSPEC
    ELSE LET i == CHOOSE i \in DOMAIN IntoArms : IntoArms[i][1] = v.variant
         IN  IntoArms[i][2]

\* impl From<AddressFamily> for u8: one arm per variant; Other(d) => d.
u8_from(v) ==
    IF v.variant = "Other"
    THEN v.d
    ELSE LET i == CHOOSE i \in DOMAIN IntoArms : IntoArms[i][1] = v.variant
         IN  IntoArms[i][2]

\* ------------------------------------------------------------------------
\* message.rs: the RTM_* type codes

RTM_NEWLINK == 16
RTM_DELLINK == 17
RTM_GETLINK == 18
RTM_SETLINK == 19
RTM_NEWADDR == 20
RTM_DELADDR == 21
RTM_GETADDR == 22
RTM_NEWROUTE == 24
RTM_DELROUTE == 25
RTM_GETROUTE == 26
RTM_NEWNEIGH == 28
RTM_DELNEIGH == 29
RTM_GETNEIGH == 30
RTM_NEWRULE == 32
RTM_DELRULE == 33
RTM_GETRULE == 34
RTM_NEWQDISC == 36
RTM_DELQDISC == 37
RTM_GETQDISC == 38
RTM_NEWTCLASS == 40
RTM_DELTCLASS == 41
RTM_GETTCLASS == 42
RTM_NEWTFILTER == 44
RTM_DELTFILTER == 45
RTM_GETTFILTER == 46
RTM_NEWPREFIX == 52
RTM_NEWNEIGHTBL == 64
RTM_GETNEIGHTBL == 66
RTM_SETNEIGHTBL == 67
RTM_NEWNSID == 88
RTM_DELNSID == 89
RTM_GETNSID == 90
RTM_NEWCHAIN == 100
RTM_DELCHAIN == 101
RTM_GETCHAIN == 102
RTM_NEWLINKPROP == 108
RTM_DELLINKPROP == 109


\* ------------------------------------------------------------------------
\* The attribute (TLV) unit: a 16-bit length that counts the 4-byte header,
\* a 16-bit kind, the value bytes, then padding to the next 4-byte boundary.
\* Integers are in host byte order, taken little-endian.

NLA_HEADER_SIZE == 4

u16_le(n) == <<n % 256, (n \div 256) % 256>>
read_u16(buf, i) == buf[i] + 256 * buf[i + 1]
nla_align(n) == ((n + 3) \div 4) * 4
Zeros(n) == [i \in 1..n |-> 0]

\* NlaBuffer accessors over the bytes of one attribute.
NlaBuffer_length(buf) == read_u16(buf, 1)
NlaBuffer_kind(buf) == read_u16(buf, 3)
NlaBuffer_value(buf) == SubSeq(buf, NLA_HEADER_SIZE + 1, NlaBuffer_length(buf))

\* NlaBuffer::new_checked: the length field is rejected when smaller than
\* the header or larger than the buffer.
NlaBuffer_new_checked(buf) ==
    IF Len(buf) < NLA_HEADER_SIZE THEN Err("NlaBufferTooShort")
    ELSE IF NlaBuffer_length(buf) < NLA_HEADER_SIZE THEN Err("NlaLengthTooSmall")
    ELSE IF NlaBuffer_length(buf) > Len(buf) THEN Err("NlaLengthTooLarge")
    ELSE Ok(buf)

\* DefaultNla, the generic fallback holder: the raw kind and the raw bytes.
DefaultNla_parse(buf) ==
    Ok([kind |-> NlaBuffer_kind(buf), value |-> NlaBuffer_value(buf)])
DefaultNla_value_len(nla) == Len(nla.value)
DefaultNla_emit_value(nla) == nla.value
DefaultNla_kind(nla) == nla.kind

\* Nla::buffer_len and Nla::emit, from the three capabilities of an
\* attribute: its kind, its value length and its value bytes.
Nla_buffer_len(value_len) == nla_align(value_len) + NLA_HEADER_SIZE
Nla_emit(kind, value_len, value) ==
    u16_le(value_len + NLA_HEADER_SIZE) \o u16_le(kind) \o value
        \o Zeros(nla_align(value_len) - value_len)

\* ------------------------------------------------------------------------
\* link/link_info/gtp.rs

\* InfoGtp::value_len, InfoGtp::emit_value: `Self::Other(nla) => nla...`
InfoGtp_value_len(self) == DefaultNla_value_len(self.nla)
InfoGtp_emit_value(self) == DefaultNla_emit_value(self.nla)

\* InfoGtp::kind reporting the kind without its two flag bits.
InfoGtp_kind_masked(self) == DefaultNla_kind(self.nla) % 16384

\* InfoGtp::kind: `Self::Other(nla) => nla.kind()`
InfoGtp_kind(self) == DefaultNla_kind(self.nla)

\* InfoGtp::parse: `match buf.kind() { kind => Self::Other(DefaultNla::parse(buf)?) }`
\* has a single arm that binds every kind.
InfoGtp_parse(buf) ==
    LET r == DefaultNla_parse(buf)
    IN  IF r.ok THEN Ok([variant |-> "Other", nla |-> r.value]) ELSE r

\* The wire form of an InfoGtp attribute: Nla::emit over its capabilities.
InfoGtp_emit(self) ==
    Nla_emit(InfoGtp_kind(self), InfoGtp_value_len(self), InfoGtp_emit_value(self))

\* ------------------------------------------------------------------------
\* The link and address sub-codecs the dispatcher delegates to.  A header
\* starts with the address-family byte; its other fixed fields are carried
\* as their wire bytes.  The attributes that follow are TLV units.

LINK_HEADER_LEN == 16
ADDRESS_HEADER_LEN == 8

RECURSIVE Nlas_parse(_)
\* The attributes of a payload, in order; the first malformed one is the error.
Nlas_parse(bytes) ==
    IF Len(bytes) = 0 THEN Ok(<<>>)
    ELSE LET checked == NlaBuffer_new_checked(bytes)
         IN  IF ~checked.ok THEN checked
             ELSE LET next == nla_align(NlaBuffer_length(bytes)) + 1
                      rest == Nlas_parse(SubSeq(bytes, next, Len(bytes)))
                  IN  IF ~rest.ok THEN rest
                      ELSE Ok(<<DefaultNla_parse(bytes).value>> \o rest.value)

RECURSIVE Nlas_emit(_)
Nlas_emit(attributes) ==
    IF attributes = <<>> THEN <<>>
    ELSE Nla_emit(Head(attributes).kind, Len(Head(attributes).value),
                  Head(attributes).value) \o Nlas_emit(Tail(attributes))

\* LinkMessage::default()
LinkMessage_default ==
    [header |-> [interface_family |-> Named("Unspec"),
                 fields |-> Zeros(LINK_HEADER_LEN - 1)],
     attributes |-> <<>>]

\* LinkMessageBuffer::new_checked: the buffer must hold the fixed header.
LinkMessageBuffer_new_checked(buf) ==
    IF Len(buf) < LINK_HEADER_LEN THEN Err("LinkBufferTooShort") ELSE Ok(buf)

\* LinkMessage::parse over a checked buffer.
LinkMessage_parse(buf) ==
    LET nlas == Nlas_parse(SubSeq(buf, LINK_HEADER_LEN + 1, Len(buf)))
    IN  IF ~nlas.ok THEN nlas
        ELSE Ok([header |-> [interface_family |-> AddressFamily_from(buf[1]),
                             fields |-> SubSeq(buf, 2, LINK_HEADER_LEN)],
                 attributes |-> nlas.value])

LinkMessage_emit(msg) ==
    <<u8_from(msg.header.interface_family)>> \o msg.header.fields
        \o Nlas_emit(msg.attributes)

LinkMessage_buffer_len(msg) == Len(LinkMessage_emit(msg))

\* AddressHeader::default()
AddressHeader_default ==
    [family |-> Named("Unspec"), fields |-> Zeros(ADDRESS_HEADER_LEN - 1)]

\* AddressMessageBuffer::new_checked: the buffer must hold the fixed header.
AddressMessageBuffer_new_checked(buf) ==
    IF Len(buf) < ADDRESS_HEADER_LEN THEN Err("AddressBufferTooShort") ELSE Ok(buf)

\* AddressMessage::parse over a checked buffer.
AddressMessage_parse(buf) ==
    LET nlas == Nlas_parse(SubSeq(buf, ADDRESS_HEADER_LEN + 1, Len(buf)))
    IN  IF ~nlas.ok THEN nlas
        ELSE Ok([header |-> [family |-> AddressFamily_from(buf[1]),
                             fields |-> SubSeq(buf, 2, ADDRESS_HEADER_LEN)],
                 attributes |-> nlas.value])

AddressMessage_emit(msg) ==
    <<u8_from(msg.header.family)>> \o msg.header.fields
        \o Nlas_emit(msg.attributes)

AddressMessage_buffer_len(msg) == Len(AddressMessage_emit(msg))

\* ------------------------------------------------------------------------
\* message.rs: the dispatcher

\* Every RTM_* constant the file defines.
Registry ==
    {RTM_NEWLINK, RTM_DELLINK, RTM_GETLINK, RTM_SETLINK,
     RTM_NEWADDR, RTM_DELADDR, RTM_GETADDR,
     RTM_NEWROUTE, RTM_DELROUTE, RTM_GETROUTE,
     RTM_NEWNEIGH, RTM_DELNEIGH, RTM_GETNEIGH,
     RTM_NEWRULE, RTM_DELRULE, RTM_GETRULE,
     RTM_NEWQDISC, RTM_DELQDISC, RTM_GETQDISC,
     RTM_NEWTCLASS, RTM_DELTCLASS, RTM_GETTCLASS,
     RTM_NEWTFILTER, RTM_DELTFILTER, RTM_GETTFILTER,
     RTM_NEWPREFIX, RTM_NEWNEIGHTBL, RTM_GETNEIGHTBL, RTM_SETNEIGHTBL,
     RTM_NEWNSID, RTM_DELNSID, RTM_GETNSID,
     RTM_NEWCHAIN, RTM_DELCHAIN, RTM_GETCHAIN,
     RTM_NEWLINKPROP, RTM_DELLINKPROP}

\* enum RouteNetlinkMessage: a variant wrapping a link or address message.
LinkVariants ==
    {"NewLink", "DelLink", "GetLink", "SetLink", "NewLinkProp", "DelLinkProp"}
AddressVariants == {"NewAddress", "DelAddress", "GetAddress"}
Wrap(variant, msg) == [variant |-> variant, msg |-> msg]

\* The link arm's inner message with the 4-byte default given to every link code.
link_msg_anyCode(buf, message_type) ==
    LET checked == LinkMessageBuffer_new_checked(buf)
    IN  IF checked.ok THEN LinkMessage_parse(checked.value)
        ELSE IF Len(buf) = 4
        THEN Ok([LinkMessage_default EXCEPT
                     !.header.interface_family = AddressFamily_from(buf[1])])
        ELSE checked

\* The link arm's inner message with the default given from 4 bytes upwards.
link_msg_fromFour(buf, message_type) ==
    LET checked == LinkMessageBuffer_new_checked(buf)
    IN  IF checked.ok THEN LinkMessage_parse(checked.value)
        ELSE IF Len(buf) >= 4 /\ message_type = RTM_GETLINK
        THEN Ok([LinkMessage_default EXCEPT
                     !.header.interface_family = AddressFamily_from(buf[1])])
        ELSE checked

\* The link arm's inner message with the three bytes after the family byte
\* copied into the default header instead of being ignored.
link_msg_keepsPadding(buf, message_type) ==
    LET checked == LinkMessageBuffer_new_checked(buf)
    IN  IF checked.ok THEN LinkMessage_parse(checked.value)
        ELSE IF Len(buf) = 4 /\ message_type = RTM_GETLINK
        THEN Ok([header |-> [interface_family |-> AddressFamily_from(buf[1]),
                             fields |-> SubSeq(buf, 2, 4)
                                            \o Zeros(LINK_HEADER_LEN - 4)],
                 attributes |-> <<>>])
        ELSE checked

\* parse_with_param, the link arm's `let msg = match ... { }`: parse a
\* checked buffer (`?` returns its error); on a failed check, a 4-byte
\* RTM_GETLINK payload gives the default message with the family of byte 0,
\* anything else returns the check's error.
link_msg(buf, message_type) ==
    LET checked == LinkMessageBuffer_new_checked(buf)
    IN  IF checked.ok THEN LinkMessage_parse(checked.value)
        ELSE IF Len(buf) = 4 /\ message_type = RTM_GETLINK
        THEN Ok([LinkMessage_default EXCEPT
                     !.header.interface_family = AddressFamily_from(buf[1])])
        ELSE checked

\* The address arm's inner message with the 4-byte default given to every
\* address code.
address_msg_anyCode(buf, message_type) ==
    LET checked == AddressMessageBuffer_new_checked(buf)
    IN  IF checked.ok THEN AddressMessage_parse(checked.value)
        ELSE IF Len(buf) = 4
        THEN Ok([header |-> [AddressHeader_default EXCEPT
                                 !.family = AddressFamily_from(buf[1])],
                 attributes |-> <<>>])
        ELSE checked

\* parse_with_param, the address arm's `let msg = match ... { }`.
address_msg(buf, message_type) ==
    LET checked == AddressMessageBuffer_new_checked(buf)
    IN  IF checked.ok THEN AddressMessage_parse(checked.value)
        ELSE IF Len(buf) = 4 /\ message_type = RTM_GETADDR
        THEN Ok([header |-> [AddressHeader_default EXCEPT
                                 !.family = AddressFamily_from(buf[1])],
                 attributes |-> <<>>])
        ELSE checked

\* The link arm's closing match: the variant of a link code.
link_variant(message_type) ==
    CASE message_type = RTM_NEWLINK -> "NewLink"
      [] message_type = RTM_GETLINK -> "GetLink"
      [] message_type = RTM_DELLINK -> "DelLink"
      [] message_type = RTM_SETLINK -> "SetLink"

\* The address arm's closing match: the variant of an address code.
address_variant(message_type) ==
    CASE message_type = RTM_NEWADDR -> "NewAddress"
      [] message_type = RTM_GETADDR -> "GetAddress"
      [] message_type = RTM_DELADDR -> "DelAddress"

\* parse_with_param without the rejecting last arm: a code that is no
\* address code is decoded as RTM_GETLINK.
parse_with_param_noReject(buf, message_type) ==
    IF message_type \in {RTM_NEWADDR, RTM_GETADDR, RTM_DELADDR}
    THEN LET msg == address_msg(buf, message_type)
         IN  IF msg.ok THEN Ok(Wrap(address_variant(message_type), msg.value))
             ELSE msg
    ELSE LET msg == link_msg(buf, RTM_GETLINK)
         IN  IF msg.ok THEN Ok(Wrap("GetLink", msg.value)) ELSE msg

\* RouteNetlinkMessage::parse_with_param
parse_with_param(buf, message_type) ==
    IF message_type \in {RTM_NEWLINK, RTM_GETLINK, RTM_DELLINK, RTM_SETLINK}
    THEN LET msg == link_msg(buf, message_type)
         IN  IF msg.ok THEN Ok(Wrap(link_variant(message_type), msg.value))
             ELSE msg
    ELSE IF message_type \in {RTM_NEWADDR, RTM_GETADDR, RTM_DELADDR}
    THEN LET msg == address_msg(buf, message_type)
         IN  IF msg.ok THEN Ok(Wrap(address_variant(message_type), msg.value))
             ELSE msg
    ELSE Err("InvalidInput")

\* The is_* predicates: `matches!(self, RouteNetlinkMessage::X(_))`.
is_new_link(self) == self.variant = "NewLink"
is_del_link(self) == self.variant = "DelLink"
is_get_link(self) == self.variant = "GetLink"
is_set_link(self) == self.variant = "SetLink"
is_new_address(self) == self.variant = "NewAddress"
is_del_address(self) == self.variant = "DelAddress"
is_get_address(self) == self.variant = "GetAddress"

\* RouteNetlinkMessage::message_type with two link codes exchanged.
message_type_swapped(self) ==
    CASE self.variant = "NewLink" -> RTM_NEWLINK
      [] self.variant = "DelLink" -> RTM_GETLINK
      [] self.variant = "GetLink" -> RTM_DELLINK
      [] self.variant = "SetLink" -> RTM_SETLINK
      [] self.variant = "NewLinkProp" -> RTM_NEWLINKPROP
      [] self.variant = "DelLinkProp" -> RTM_DELLINKPROP
      [] self.variant = "NewAddress" -> RTM_NEWADDR
      [] self.variant = "DelAddress" -> RTM_DELADDR
      [] self.variant = "GetAddress" -> RTM_GETADDR

\* RouteNetlinkMessage::message_type
message_type(self) ==
    CASE self.variant = "NewLink" -> RTM_NEWLINK
      [] self.variant = "DelLink" -> RTM_DELLINK
      [] self.variant = "GetLink" -> RTM_GETLINK
      [] self.variant = "SetLink" -> RTM_SETLINK
      [] self.variant = "NewLinkProp" -> RTM_NEWLINKPROP
      [] self.variant = "DelLinkProp" -> RTM_DELLINKPROP
      [] self.variant = "NewAddress" -> RTM_NEWADDR
      [] self.variant = "DelAddress" -> RTM_DELADDR
      [] self.variant = "GetAddress" -> RTM_GETADDR

\* impl Emitable for RouteNetlinkMessage: the six link variants delegate to
\* the link message, the three address variants to the address message.
buffer_len(self) ==
    IF self.variant \in LinkVariants
    THEN LinkMessage_buffer_len(self.msg)
    ELSE AddressMessage_buffer_len(self.msg)

emit(self) ==
    IF self.variant \in LinkVariants
    THEN LinkMessage_emit(self.msg)
    ELSE AddressMessage_emit(self.msg)

\* impl NetlinkSerializable: serialize is emit.
serialize(self) == emit(self)

\* impl NetlinkDeserializable: parse the payload under the header's type.
deserialize(header, payload) == parse_with_param(payload, header.message_type)

\* ------------------------------------------------------------------------
\* Inputs.

SeqsUpTo(S, n) == UNION {[1..k -> S] : k \in 0..n}

\* Attribute kinds offered to InfoGtp: small ones, ones with the high flag
\* bits set, and the largest.
GtpKinds == {0, 1, 2, 1000, 16385, 32770, 65535}
GtpValues == SeqsUpTo({0, 7, 255}, MaxValueLen)

\* An attribute of valid TLV shape as it arrives: header, value, zero padding.
TlvBytes(kind, value) ==
    <<(Len(value) + 4) % 256, (Len(value) + 4) \div 256, kind % 256, kind \div 256>>
        \o value \o [i \in 1..((4 - (Len(value) % 4)) % 4) |-> 0]

\* Address families put in message headers: named ones, an unknown byte,
\* and the two kinds of value From<u8> never returns.
MsgFamilies ==
    {Named("Unspec"), Named("Local"), Named("Inet6"), Other(200),
     Named("Unix"), Other(2)}

\* The other fixed header fields: all zero, or set.
LinkFields == {Zeros(15), [i \in 1..15 |-> IF i = 1 THEN 0 ELSE i]}
AddressFields == {Zeros(7), <<24, 128, 254, 2, 0, 0, 0>>}

\* Attributes carried by messages: kinds no attribute set names.
AttrKinds == {1000, 33768}
Attrs == {[kind |-> k, value |-> val] :
              k \in AttrKinds, val \in SeqsUpTo({7}, MaxValueLen)}
AttrLists == SeqsUpTo(Attrs, MaxAttrs)

LinkMessages ==
    {[header |-> [interface_family |-> f, fields |-> x], attributes |-> a] :
         f \in MsgFamilies, x \in LinkFields, a \in AttrLists}
AddressMessages ==
    {[header |-> [family |-> f, fields |-> x], attributes |-> a] :
         f \in MsgFamilies, x \in AddressFields, a \in AttrLists}

\* Every constructible message of the sample.
Messages ==
    {Wrap(v, m) : v \in LinkVariants, m \in LinkMessages}
        \cup {Wrap(v, m) : v \in AddressVariants, m \in AddressMessages}

\* Type codes that arrive: the registry and codes outside it.
UnregisteredCodes == {0, 15, 23, 27, 110, 272, 65535}
Codes == Registry \cup UnregisteredCodes

\* Payloads that arrive: every short byte string over a few bytes, the
\* 4-byte family-only header for every family byte, every prefix of an
\* encoded message, and full headers followed by a malformed attribute.
ShortPayloads == SeqsUpTo({0, 1, 16, 200}, MaxShortLen)
QuirkPayloads == {<<f, 0, 0, 0>> : f \in Bytes}
Prefixes(S) == UNION {{SubSeq(p, 1, n) : n \in 0..Len(p)} : p \in S}
BadAttrPayloads ==
    {Zeros(h) \o a : h \in {LINK_HEADER_LEN, ADDRESS_HEADER_LEN},
                     a \in {<<3, 0, 232, 3>>, <<9, 0, 232, 3, 7, 7, 7, 7>>}}
Payloads ==
    ShortPayloads \cup QuirkPayloads \cup BadAttrPayloads
        \cup Prefixes({emit(m) : m \in Messages})

\* No message was sent: the payload came from elsewhere.
NoMessage == [variant |-> "None"]

\* ------------------------------------------------------------------------
\* State machine.

\* Nothing has been called yet.
Init ==
    /\ op = "none"
    /\ arg = [none |-> TRUE]
    /\ ret = [none |-> TRUE]

\* A call has returned: its arguments and result are dropped, nothing of
\* them stays in the library.
Return ==
    /\ op # "none"
    /\ op' = "none"
    /\ arg' = [none |-> TRUE]
    /\ ret' = [none |-> TRUE]

\* AddressFamily::from(d) for a byte d.
FromU8 ==
    /\ op = "none"
    /\ \E d \in Bytes :
        /\ op' = "AddressFamily::from"
        /\ arg' = d
        /\ ret' = AddressFamily_from(d)

\* u8::from(v) for an address family v.
IntoU8 ==
    /\ op = "none"
    /\ \E v \in AddressFamilyValues :
        /\ op' = "u8::from"
        /\ arg' = v
        /\ ret' = u8_from(v)

NextFamily == FromU8 \/ IntoU8 \/ Return

SpecFamily == Init /\ [][NextFamily]_vars

\* InfoGtp::parse on the buffer of one attribute of kind k and value val.
GtpParse ==
    /\ op = "none"
    /\ \E k \in GtpKinds, val \in GtpValues :
        /\ op' = "InfoGtp::parse"
        /\ arg' = [kind |-> k, value |-> val, buf |-> TlvBytes(k, val)]
        /\ ret' = InfoGtp_parse(TlvBytes(k, val))

\* The Nla capabilities of an InfoGtp value and the bytes it emits.
GtpEmit ==
    /\ op = "none"
    /\ \E k \in GtpKinds, val \in GtpValues :
        LET self == [variant |-> "Other", nla |-> [kind |-> k, value |-> val]]
        IN  /\ op' = "InfoGtp::emit"
            /\ arg' = self
            /\ ret' = [kind |-> InfoGtp_kind(self),
                       value_len |-> InfoGtp_value_len(self),
                       buffer_len |-> Nla_buffer_len(InfoGtp_value_len(self)),
                       buffer |-> InfoGtp_emit(self)]

NextGtp == GtpParse \/ GtpEmit \/ Return

SpecGtp == Init /\ [][NextGtp]_vars
\* NetlinkSerializable on a message: its type code, its length and its bytes.
Serialize ==
    /\ op = "none"
    /\ \E m \in Messages :
        /\ op' = "serialize"
        /\ arg' = m
        /\ ret' = [message_type |-> message_type(m),
                   buffer_len |-> buffer_len(m),
                   buffer |-> serialize(m)]

\* NetlinkDeserializable::deserialize on what was just serialized.
DeserializeSent ==
    /\ op = "serialize"
    /\ op' = "deserialize"
    /\ arg' = [message_type |-> ret.message_type, payload |-> ret.buffer,
               sent |-> arg]
    /\ ret' = deserialize([message_type |-> ret.message_type], ret.buffer)

\* NetlinkDeserializable::deserialize on a type code and payload off the wire.
Deserialize ==
    /\ op = "none"
    /\ \E c \in Codes, p \in Payloads :
        /\ op' = "deserialize"
        /\ arg' = [message_type |-> c, payload |-> p, sent |-> NoMessage]
        /\ ret' = deserialize([message_type |-> c], p)

\* Every is_* predicate asked of a message.
IsVariant ==
    /\ op = "none"
    /\ \E m \in Messages :
        /\ op' = "is"
        /\ arg' = m
        /\ ret' = [is_new_link |-> is_new_link(m),
                   is_del_link |-> is_del_link(m),
                   is_get_link |-> is_get_link(m),
                   is_set_link |-> is_set_link(m),
                   is_new_address |-> is_new_address(m),
                   is_del_address |-> is_del_address(m),
                   is_get_address |-> is_get_address(m)]

Next == Serialize \/ DeserializeSent \/ Deserialize \/ IsVariant \/ Return

Spec == Init /\ [][Next]_vars

\* ------------------------------------------------------------------------
\* Properties.

\* C7: AddressFamily::from(u8) is total over all 256 byte values (it always
\* returns an AddressFamily value, unknown bytes becoming Other(b)), and
\* converting the returned value back gives the byte: for every byte b,
\* u8::from(AddressFamily::from(b)) = b.
C7_ByteRoundTrip ==
    op = "AddressFamily::from" =>
        /\ ret \in AddressFamilyValues
        /\ u8_from(ret) = arg
        /\ (\A i \in DOMAIN FromArms : FromArms[i][1] # arg) => ret = Other(arg)

\* An unknown byte was converted and came back as Other of itself.
C7_Witness ==
    op = "AddressFamily::from" /\ arg = 200 /\ ret = Other(200)

\* C8 as stated: for every AddressFamily value v, named or Other,
\* AddressFamily::from(u8::from(v)) = v.
C8_ExactInverse ==
    op = "u8::from" => AddressFamily_from(ret) = arg

\* The values From<u8> never returns: the second variant of a shared byte
\* (AF_UNIX = AF_LOCAL, AF_NETLINK = AF_ROUTE) and Other(d) of a named byte.
Aliased(v) ==
    \/ v.variant \in {"Unix", "Netlink"}
    \/ v.variant = "Other" /\ \E i \in DOMAIN FromArms : FromArms[i][1] = v.d

\* C8 amended: for every AddressFamily value v that is not Unix, not Netlink
\* and not Other(d) of a byte d that has a named variant,
\* AddressFamily::from(u8::from(v)) = v; Unix comes back as Local, Netlink as
\* Route and Other(d) of a named byte as that byte's first named variant.
C8_InverseOnCanonical ==
    op = "u8::from" =>
        /\ ~Aliased(arg) => AddressFamily_from(ret) = arg
        /\ arg = Named("Unix") => AddressFamily_from(ret) = Named("Local")
        /\ arg = Named("Netlink") => AddressFamily_from(ret) = Named("Route")
        /\ (arg.variant = "Other" /\ Aliased(arg)) =>
               /\ AddressFamily_from(ret).variant # "Other"
               /\ u8_from(AddressFamily_from(ret)) = arg.d

\* A named variant with a byte of its own was converted to that byte.
C8_Witness ==
    op = "u8::from" /\ arg = Named("Mctp") /\ ret = AF_MCTP

\* C9: every attribute buffer of valid TLV shape, whatever its 16-bit kind,
\* is decoded by InfoGtp::parse into the Other holder; the decoded attribute
\* reports the original kind and the original value length, emits the
\* original value bytes, and its wire form is the original buffer.
C9_GtpFallbackPreserved ==
    op = "InfoGtp::parse" =>
        /\ ret.ok
        /\ ret.value.variant = "Other"
        /\ InfoGtp_kind(ret.value) = arg.kind
        /\ InfoGtp_value_len(ret.value) = Len(arg.value)
        /\ InfoGtp_emit_value(ret.value) = arg.value
        /\ InfoGtp_emit(ret.value) = arg.buf

\* An attribute whose kind has the top flag bit set and whose value needs
\* padding was decoded into the Other holder.
C9_Witness ==
    /\ op = "InfoGtp::parse"
    /\ arg.kind = 32770
    /\ Len(arg.value) = 1
    /\ ret.ok
    /\ ret.value.variant = "Other"

\* A wrapped value is well-formed when its family is one From<u8> returns.
WellFormed(m) ==
    IF m.variant \in LinkVariants
    THEN ~Aliased(m.msg.header.interface_family)
    ELSE ~Aliased(m.msg.header.family)

\* C1 as stated: for every message m, of any variant, whose wrapped value is
\* well-formed, decoding the bytes of encode(m) under message_type(m)
\* succeeds and returns m.
C1_RoundTrip ==
    (op = "deserialize" /\ arg.sent # NoMessage /\ WellFormed(arg.sent)) =>
        ret = Ok(arg.sent)

\* C2: whenever decoding a type code c and a payload succeeds with a message
\* r, message_type(r) = c, on the normal path and on the 4-byte path.
C2_TypeCodeConsistency ==
    (op = "deserialize" /\ ret.ok) => message_type(ret.value) = arg.message_type

\* A 4-byte RTM_GETADDR payload was decoded successfully.
C2_Witness ==
    /\ op = "deserialize"
    /\ arg.message_type = RTM_GETADDR
    /\ Len(arg.payload) = 4
    /\ ret.ok

\* C3: for a type code outside the registry and any payload, decoding fails
\* with the invalid-input error: no message is returned, 4-byte payloads
\* included.
C3_UnregisteredCode ==
    (op = "deserialize" /\ arg.message_type \notin Registry) =>
        ret = Err("InvalidInput")

\* A 4-byte payload under code 0xFFFF was rejected.
C3_Witness ==
    /\ op = "deserialize"
    /\ arg.message_type = 65535
    /\ arg.payload = <<2, 0, 0, 0>>
    /\ ret = Err("InvalidInput")

FamilyOnly(p) == Len(p) = 4 /\ p[2] = 0 /\ p[3] = 0 /\ p[4] = 0

\* C4: for every byte f, decoding <<f, 0, 0, 0>> under RTM_GETLINK returns
\* GetLink of the default link message with interface family
\* AddressFamily::from(f); under RTM_NEWLINK, RTM_DELLINK and RTM_SETLINK the
\* same payload fails with the error of the link buffer check.
C4_GetLinkQuirk ==
    (op = "deserialize" /\ FamilyOnly(arg.payload)) =>
        /\ arg.message_type = RTM_GETLINK =>
               ret = Ok(Wrap("GetLink",
                        [header |-> [interface_family |->
                                         AddressFamily_from(arg.payload[1]),
                                     fields |-> Zeros(15)],
                         attributes |-> <<>>]))
        /\ arg.message_type \in {RTM_NEWLINK, RTM_DELLINK, RTM_SETLINK} =>
               /\ ~ret.ok
               /\ ret = LinkMessageBuffer_new_checked(arg.payload)

\* <<10, 0, 0, 0>> under RTM_GETLINK gave a GetLink message of family Inet6.
C4_Witness ==
    /\ op = "deserialize"
    /\ arg.message_type = RTM_GETLINK
    /\ arg.payload = <<10, 0, 0, 0>>
    /\ ret.ok
    /\ ret.value.variant = "GetLink"
    /\ ret.value.msg.header.interface_family = Named("Inet6")

\* C5: for every byte f, decoding <<f, 0, 0, 0>> under RTM_GETADDR returns
\* GetAddress of an address message with the default header, family
\* AddressFamily::from(f), and no attributes; under RTM_NEWADDR and
\* RTM_DELADDR the same payload fails with the error of the address buffer
\* check.
C5_GetAddressQuirk ==
    (op = "deserialize" /\ FamilyOnly(arg.payload)) =>
        /\ arg.message_type = RTM_GETADDR =>
               ret = Ok(Wrap("GetAddress",
                        [header |-> [family |->
                                         AddressFamily_from(arg.payload[1]),
                                     fields |-> Zeros(7)],
                         attributes |-> <<>>]))
        /\ arg.message_type \in {RTM_NEWADDR, RTM_DELADDR} =>
               /\ ~ret.ok
               /\ ret = AddressMessageBuffer_new_checked(arg.payload)

\* <<200, 0, 0, 0>> under RTM_GETADDR gave a GetAddress message of family
\* Other(200).
C5_Witness ==
    /\ op = "deserialize"
    /\ arg.message_type = RTM_GETADDR
    /\ arg.payload = <<200, 0, 0, 0>>
    /\ ret.ok
    /\ ret.value.variant = "GetAddress"
    /\ ret.value.msg.header.family = Other(200)
    /\ ret.value.msg.attributes = <<>>

\* The 4-byte payload under a get code: the one case with a default value.
QuirkCase(c, p) == Len(p) = 4 /\ c \in {RTM_GETLINK, RTM_GETADDR}

\* C6: under a link or address code, when the buffer length check fails, or
\* it passes and the sub-codec's parse fails, and the case is not a 4-byte
\* payload under a get code, decoding returns that error and no value.
C6_ErrorsPropagated ==
    (op = "deserialize" /\ ~QuirkCase(arg.message_type, arg.payload)) =>
        /\ arg.message_type \in {RTM_NEWLINK, RTM_DELLINK, RTM_GETLINK, RTM_SETLINK} =>
               LET checked == LinkMessageBuffer_new_checked(arg.payload)
                   parsed == LinkMessage_parse(arg.payload)
               IN  /\ ~checked.ok => ret = checked
                   /\ (checked.ok /\ ~parsed.ok) => ret = parsed
        /\ arg.message_type \in {RTM_NEWADDR, RTM_DELADDR, RTM_GETADDR} =>
               LET checked == AddressMessageBuffer_new_checked(arg.payload)
                   parsed == AddressMessage_parse(arg.payload)
               IN  /\ ~checked.ok => ret = checked
                   /\ (checked.ok /\ ~parsed.ok) => ret = parsed

\* A 5-byte RTM_GETLINK payload, too short and not the 4-byte case, failed.
C6_Witness ==
    /\ op = "deserialize"
    /\ arg.message_type = RTM_GETLINK
    /\ Len(arg.payload) = 5
    /\ ret = Err("LinkBufferTooShort")

\* The predicate named after each variant.
PredicateOf(variant) ==
    CASE variant = "NewLink" -> "is_new_link"
      [] variant = "DelLink" -> "is_del_link"
      [] variant = "GetLink" -> "is_get_link"
      [] variant = "SetLink" -> "is_set_link"
      [] variant = "NewLinkProp" -> "is_new_link_prop"
      [] variant = "DelLinkProp" -> "is_del_link_prop"
      [] variant = "NewAddress" -> "is_new_address"
      [] variant = "DelAddress" -> "is_del_address"
      [] variant = "GetAddress" -> "is_get_address"

\* C10 as stated: for every message m exactly one is_* predicate returns
\* true, the one of m's own variant.
C10_OnePredicatePerVariant ==
    op = "is" => {p \in DOMAIN ret : ret[p]} = {PredicateOf(arg.variant)}

\* The 4-byte payloads that arrive, whatever their bytes 1..3.
FourBytePayloads == {q \in Payloads : Len(q) = 4}

\* C12: on the 4-byte path the result depends on the first payload byte
\* only: under RTM_GETLINK and under RTM_GETADDR every 4-byte payload decodes
\* to the default message with the family of its first byte, with nothing of
\* bytes 1..3 in it, and every 4-byte payload with the same first byte
\* decodes to an equal message.
C12_FirstByteOnly ==
    (op = "deserialize" /\ QuirkCase(arg.message_type, arg.payload)) =>
        /\ ret.ok
        /\ ret.value.msg.attributes = <<>>
        /\ \A i \in DOMAIN ret.value.msg.header.fields :
               ret.value.msg.header.fields[i] = 0
        /\ arg.message_type = RTM_GETLINK =>
               /\ ret.value.variant = "GetLink"
               /\ ret.value.msg.header.interface_family =
                      AddressFamily_from(arg.payload[1])
        /\ arg.message_type = RTM_GETADDR =>
               /\ ret.value.variant = "GetAddress"
               /\ ret.value.msg.header.family =
                      AddressFamily_from(arg.payload[1])
        /\ \A q \in FourBytePayloads :
               q[1] = arg.payload[1] =>
                   deserialize([message_type |-> arg.message_type], q) = ret

\* <<16, 200, 1, 200>>, whose bytes 1..3 are no padding, was decoded under
\* RTM_GETLINK into the default message of family Route.
C12_Witness ==
    /\ op = "deserialize"
    /\ arg.message_type = RTM_GETLINK
    /\ arg.payload = <<16, 200, 1, 200>>
    /\ ret = Ok(Wrap("GetLink",
                 [header |-> [interface_family |-> Named("Route"),
                              fields |-> Zeros(15)],
                  attributes |-> <<>>]))

====
